---- MODULE Spec2Model ----
(***************************************************************************)
(* Model of logfile.py: the supervisor loop of main() and the three steps  *)
(* it drives, compress_files, rotate_files and write_logs, acting on the   *)
(* 'logs' directory.  Spec is the loop; SpecConfig is the reading of the   *)
(* two limits by get_config_value before the loop, SpecRewrite the         *)
(* rewriting of one line by write_logs, SpecTwice two runs of              *)
(* compress_files in a row.                                                *)
(*                                                                         *)
(* A path of the directory is <<n, ext, i>>: n is the second-resolution    *)
(* timestamp of the log's name, ext is "txt" or "tgz", and i is the        *)
(* archive's index (NoIdx for '<name>.tar.gz', i >= 0 for                  *)
(* '<name>.NNN.tar.gz').  A file is a record                               *)
(*   gen   : which open() of write_logs produced the text (0: before the   *)
(*           daemon started)                                               *)
(*   len   : length of the log text (of the archived text for an archive)  *)
(*   size  : bytes on disk (os.path.getsize)                               *)
(*   mtime : modification time (os.path.getmtime)                          *)
(*   whole : FALSE for an archive whose writing was interrupted            *)
(***************************************************************************)
EXTENDS Integers, Sequences, FiniteSets, TLC

\* ------------------------------------------------------------- bounds
MaxClock == 3        \* the clock stops at MaxClock
MaxOpens == 1        \* write_logs opens at most this many log files
MaxInitFiles == 3    \* files found in 'logs' when the daemon starts
MaxUnits == 1        \* text lengths of those files and the two limits go up to MaxUnits

NoIdx == 0 - 1

Txt(n) == <<n, "txt", NoIdx>>
Tgz(n, i) == <<n, "tgz", i>>

IsTxt(p) == p[2] = "txt"
IsTgz(p) == p[2] = "tgz"

Unbound == <<0, "unbound", NoIdx>>

VARIABLES
  dir,               \* the directory 'logs': path -> file
  now,               \* the wall clock, in seconds
  pc,                \* position of the single thread of main()
  max_file_size,     \* main(): rotation threshold
  max_total_storage, \* main(): retention budget
  logfiles,          \* compress_files / rotate_files: the local list
  tarball_path,      \* compress_files: local, Unbound until first assigned
  original_mtime,    \* compress_files: local
  total_size,        \* rotate_files: local running total
  f,                 \* write_logs: the open file object [path, pos, flushed, synced, open]
  tail,              \* write_logs: the tail subprocess "none" | "running" | "exited"
  line,              \* write_logs: the value readline() returned
  opens,             \* number of open() calls write_logs has made
  crashed,           \* "" or the function an exception propagated out of
  cp,                \* the config store of the router [reachable, appdata]
  alive,             \* number of tail subprocesses that are running
  hist               \* history of the current pass (see HistInit)

vars == <<dir, now, pc, max_file_size, max_total_storage, cp, alive, logfiles, tarball_path,
          original_mtime, total_size, f, tail, line, opens, crashed, hist>>

\* ------------------------------------------------------------- helpers
Paths == DOMAIN dir

Remove(d, p) == [q \in (DOMAIN d) \ {p} |-> d[q]]

Put(d, p, file) == [q \in (DOMAIN d) \cup {p} |-> IF q = p THEN file ELSE d[q]]

\* every order in which os.listdir may return the members of S
RECURSIVE Orders(_)
Orders(S) ==
  IF S = {} THEN {<<>>}
  ELSE UNION {{<<x>> \o s : s \in Orders(S \ {x})} : x \in S}

RECURSIVE SumSizes(_, _)
SumSizes(d, S) ==
  IF S = {} THEN 0
  ELSE LET p == CHOOSE q \in S : TRUE IN d[p].size + SumSizes(d, S \ {p})

\* size on disk of the tar.gz container of a text of length n
TarSize(n) == (n \div 2) + 1

\* ------------------------------------------------------------- get_config_value
MB == 2^20

DEFAULT_MAX_FILE_SIZE_MB == 10
DEFAULT_MAX_TOTAL_STORAGE_MB == 50

\* The config store: reachable or not, and what it holds at
\* '/config/system/sdk/appdata', a sequence of items (the empty sequence for
\* None and for []).  An item is a dict or something without .get(); the name
\* and the value of a dict are strings, None when the key is missing.
NoStore == [reachable |-> FALSE, appdata |-> <<>>]

None == <<"None">>

ItemNames == {"logfile_max_file_size_MB", "logfile_max_total_storage_MB", "None"}

\* missing, '', 'x' and '7'
ItemValues == {None, <<>>, <<"x">>, <<"7">>}

Items ==
  [dict : {TRUE}, name : ItemNames, value : ItemValues]
    \cup {[dict |-> FALSE, name |-> "None", value |-> None]}

\* `if value:` is false for None and for ''
ValueTruthy(v) == v \notin {None, <<>>}

\* ------------------------------------------------------------- initial state
\* The daemon starts at second 2.  What an earlier run may have left in 'logs':
\* logs and archives named by the second 0 or by the current second, last
\* written no earlier than their name says and no later than now.
InitPaths == {<<n, e[1], e[2]>> : n \in {0, 2}, e \in {<<"txt", NoIdx>>, <<"tgz", NoIdx>>, <<"tgz", 0>>}}

InitFile(p, len, t) ==
  [gen |-> 0, len |-> len, size |-> IF IsTxt(p) THEN len ELSE TarSize(len),
   mtime |-> t, whole |-> TRUE]

InitDirs ==
  UNION {[S -> (1..MaxUnits) \X (0..2)] : S \in {T \in SUBSET InitPaths : Cardinality(T) <= MaxInitFiles}}

NoRet == [why |-> "", pos |-> 0, prev |-> 0]

NoRun == [ran |-> FALSE, dir |-> <<>>, clean |-> FALSE, done |-> 0]

NoFile == [path |-> Unbound, pos |-> 0, flushed |-> 0, synced |-> 0, open |-> FALSE]

HistInit ==
  [dir0 |-> <<>>,        \* compress_files: the directory when the pass listed it
   failed |-> {},        \* compress_files: candidates whose iteration raised
   done |-> {},          \* compress_files: <<archive path, source path>> of each success
   deleted |-> <<>>,     \* rotate_files: the files removed, in order
   prevpos |-> 0,        \* write_logs: f.tell() before the last write
   wrote |-> <<>>,       \* write_logs: the text of the last f.write, until the size test
   ret |-> NoRet,        \* write_logs: how the call that just returned ended
   first |-> NoRun]      \* what a compress_files run that is followed by another left

Init ==
  /\ \E g \in InitDirs :
       /\ \A p \in DOMAIN g : g[p][2] >= p[1]
       /\ dir = [p \in DOMAIN g |-> InitFile(p, g[p][1], g[p][2])]
  /\ now = 2
  /\ pc = "compress_files"
  /\ max_file_size \in 1..MaxUnits
  /\ max_total_storage \in 0..MaxUnits
  /\ logfiles = <<>>
  /\ tarball_path = Unbound
  /\ original_mtime = 0
  /\ total_size = 0
  /\ f = NoFile
  /\ tail = "none"
  /\ line = <<>>
  /\ opens = 0
  /\ crashed = ""
  /\ cp = NoStore
  /\ alive = 0
  /\ hist = HistInit

\* ------------------------------------------------------------- compress_files
\* tarball_path = f'{path}.tar.gz', or the first f'{path}.{i:03d}.tar.gz' that
\* does not exist
\* (no probing: always index 000)
ProbeNone(d, n, i) == Tgz(n, 0)

RECURSIVE Probe(_, _, _)
Probe(d, n, i) == IF Tgz(n, i) \in DOMAIN d THEN Probe(d, n, i + 1) ELSE Tgz(n, i)

TarballPath(d, n) == IF Tgz(n, NoIdx) \in DOMAIN d THEN Probe(d, n, 0) ELSE Tgz(n, NoIdx)

\* with tarfile.open(tarball_path, 'w:gz') as tar: tar.add(path) -- a new file
\* stamped with the time of writing
TarAdd(d, tp, src, t) ==
  Put(d, tp, [gen |-> d[src].gen, len |-> d[src].len, size |-> TarSize(d[src].len),
              mtime |-> t, whole |-> TRUE])

\* the archive as an interrupted tarfile.open/tar.add may leave it
TarPartial(d, tp, src, t) ==
  Put(d, tp, [gen |-> d[src].gen, len |-> d[src].len, size |-> 1, mtime |-> t, whole |-> FALSE])

\* (the call left out)
UtimeSkipped(d, tp, t) == d

\* os.utime(tarball_path, (original_mtime, original_mtime))
Utime(d, tp, t) == [d EXCEPT ![tp].mtime = t]

\* (a handler that only logs)
ExceptNoCleanup(d, tp) == d

\* except: if os.path.exists(tarball_path): os.remove(tarball_path)
ExceptCleanup(d, tp) == IF tp \in DOMAIN d THEN Remove(d, tp) ELSE d

\* (the listing without the '.txt' test)
CandidatesAll(d) == DOMAIN d

\* [f for f in os.listdir('logs') if f.endswith('.txt') and os.path.isfile(...)]
Candidates(d) == {p \in DOMAIN d : IsTxt(p)}

\* the for loop moves to the next candidate, or compress_files returns
NextCandidate ==
  /\ logfiles' = Tail(logfiles)
  /\ pc' = IF Tail(logfiles) = <<>> THEN "rotate_files" ELSE "c_getmtime"
  /\ tarball_path' = IF Tail(logfiles) = <<>> THEN Unbound ELSE tarball_path
  /\ original_mtime' = IF Tail(logfiles) = <<>> THEN 0 ELSE original_mtime

CompressList ==
  /\ pc = "compress_files"
  /\ logfiles' \in Orders(Candidates(dir))
  /\ pc' = IF logfiles' = <<>> THEN "rotate_files" ELSE "c_getmtime"
  /\ tarball_path' = Unbound
  /\ hist' = [hist EXCEPT !.dir0 = dir, !.failed = {}, !.done = {}, !.ret = NoRet]
  /\ UNCHANGED <<dir, now, max_file_size, max_total_storage, cp, alive,
                 original_mtime, total_size, f, tail, line, opens, crashed>>

\* original_mtime = os.path.getmtime(path), then the choice of tarball_path
CompressGetMtime ==
  /\ pc = "c_getmtime"
  /\ original_mtime' = dir[Head(logfiles)].mtime
  /\ tarball_path' = TarballPath(dir, Head(logfiles)[1])
  /\ pc' = "c_tar"
  /\ UNCHANGED <<dir, now, max_file_size, max_total_storage, cp, alive, logfiles,
                 total_size, f, tail, line, opens, crashed, hist>>

CompressTar ==
  /\ pc = "c_tar"
  /\ dir' = TarAdd(dir, tarball_path, Head(logfiles), now)
  /\ pc' = "c_utime"
  /\ UNCHANGED <<now, max_file_size, max_total_storage, cp, alive, logfiles, tarball_path,
                 original_mtime, total_size, f, tail, line, opens, crashed, hist>>

CompressUtime ==
  /\ pc = "c_utime"
  /\ dir' = Utime(dir, tarball_path, original_mtime)
  /\ pc' = "c_remove"
  /\ UNCHANGED <<now, max_file_size, max_total_storage, cp, alive, logfiles, tarball_path,
                 original_mtime, total_size, f, tail, line, opens, crashed, hist>>

CompressRemove ==
  /\ pc = "c_remove"
  /\ dir' = Remove(dir, Head(logfiles))
  /\ hist' = [hist EXCEPT !.done = @ \cup {<<tarball_path, Head(logfiles)>>}]
  /\ NextCandidate
  /\ UNCHANGED <<now, max_file_size, max_total_storage, cp, alive, total_size, f, tail, line,
                 opens, crashed>>

\* One of the four steps of the try block raises.  The handler logs and removes
\* tarball_path if it exists; tarball_path is a local of the function, assigned
\* only after getmtime returned, so the handler reads whatever an earlier
\* iteration left there, and raises UnboundLocalError if there was none.
CompressExcept ==
  /\ pc \in {"c_getmtime", "c_tar", "c_utime", "c_remove"}
  /\ \E raised \in {dir} \cup (IF pc = "c_tar"
                               THEN {TarPartial(dir, tarball_path, Head(logfiles), now)}
                               ELSE {}) :
       IF tarball_path = Unbound
       THEN /\ dir' = raised
            /\ crashed' = "compress_files"
            /\ pc' = "crashed"
            /\ UNCHANGED <<logfiles, tarball_path, original_mtime>>
       ELSE /\ dir' = ExceptCleanup(raised, tarball_path)
            /\ crashed' = crashed
            /\ NextCandidate
  /\ hist' = [hist EXCEPT !.failed = @ \cup {Head(logfiles)}]
  /\ UNCHANGED <<now, max_file_size, max_total_storage, cp, alive, total_size, f, tail, line,
                 opens>>

\* ------------------------------------------------------------- rotate_files
\* sorted(logfiles, key=getmtime, reverse=True): newest first; the sort is stable,
\* so files of equal mtime stay in the order os.listdir gave
\* (the sort without reverse=True)
OldestFirst(d, s) == \A i \in 1..(Len(s) - 1) : d[s[i]].mtime <= d[s[i + 1]].mtime

NewestFirst(d, s) == \A i \in 1..(Len(s) - 1) : d[s[i]].mtime >= d[s[i + 1]].mtime

\* (the test one unit late)
KeepDeletingLate(total, max, files) == total > max + 1 /\ files # <<>>

\* (the size is not tested)
KeepDeletingAll(total, max, files) == files # <<>>

\* while total_size > max_total_storage and logfiles
KeepDeleting(total, max, files) == total > max /\ files # <<>>

RotateList ==
  /\ pc = "rotate_files"
  /\ logfiles' \in {s \in Orders(Paths) : NewestFirst(dir, s)}
  /\ total_size' = SumSizes(dir, Paths)
  /\ pc' = "r_loop"
  /\ hist' = [hist EXCEPT !.deleted = <<>>, !.dir0 = <<>>, !.failed = {}, !.done = {}]
  /\ UNCHANGED <<dir, now, max_file_size, max_total_storage, cp, alive, tarball_path,
                 original_mtime, f, tail, line, opens, crashed>>

\* oldest = logfiles.pop(); total_size -= getsize(oldest); os.remove(oldest)
RotatePop ==
  /\ pc = "r_loop"
  /\ KeepDeleting(total_size, max_total_storage, logfiles)
  /\ LET oldest == logfiles[Len(logfiles)] IN
       /\ logfiles' = SubSeq(logfiles, 1, Len(logfiles) - 1)
       /\ total_size' = total_size - dir[oldest].size
       /\ dir' = Remove(dir, oldest)
       /\ hist' = [hist EXCEPT !.deleted = Append(@, [path |-> oldest, mtime |-> dir[oldest].mtime])]
  /\ UNCHANGED <<now, pc, max_file_size, max_total_storage, cp, alive, tarball_path,
                 original_mtime, f, tail, line, opens, crashed>>

RotateReturn ==
  /\ pc = "r_loop"
  /\ ~KeepDeleting(total_size, max_total_storage, logfiles)
  /\ pc' = "write_logs"
  /\ logfiles' = <<>>
  /\ total_size' = 0
  /\ UNCHANGED <<dir, now, max_file_size, max_total_storage, cp, alive, tarball_path,
                 original_mtime, f, tail, line, opens, crashed, hist>>

\* ------------------------------------------------------------- write_logs
\* A line is a sequence of characters: "7" a digit, "k" a letter, " " and "\n".
\* The lines tail prints here: an empty line and '<epoch> <text>'.
Lines == {<<"\n">>, <<"7", " ", "k", "\n">>}

\* what tail.stdout.readline() returns: a bytes object, b'' at end of stream
Bytes(s) == [type |-> "bytes", data |-> s]

\* the sentinel of iter(tail.stdout.readline, ''): the empty str
Sentinel == [type |-> "str", data |-> <<>>]

\* Popen.returncode stays None until poll(), wait() or communicate() is called,
\* and write_logs calls none of them
Returncode(t) == "None"

Truthy(v) == v \notin {"None", "0"}

\* str.split(' ')
RECURSIVE Split(_)
Split(s) ==
  IF s = <<>> THEN << <<>> >>
  ELSE LET r == Split(Tail(s)) IN
       IF Head(s) = " " THEN << <<>> >> \o r
       ELSE << <<Head(s)>> \o Head(r) >> \o Tail(r)

\* ' '.join(line)
RECURSIVE Join(_)
Join(toks) ==
  IF Len(toks) = 1 THEN toks[1] ELSE toks[1] \o <<" ">> \o Join(Tail(toks))

\* float() ignores surrounding whitespace and accepts a run of digits
RECURSIVE Strip(_)
Strip(s) ==
  IF s = <<>> THEN s
  ELSE IF Head(s) = "\n" THEN Strip(Tail(s))
  ELSE IF s[Len(s)] = "\n" THEN Strip(SubSeq(s, 1, Len(s) - 1))
  ELSE s

FloatParses(tok) == Strip(tok) # <<>> /\ \A i \in 1..Len(Strip(tok)) : Strip(tok)[i] = "7"

\* time.strftime('%Y-%m-%d %H:%M:%S', ...): a date, a space, a time
Strftime == <<"D", " ", "T">>

\* (the first token is replaced whether it parses or not)
RewriteAlways(s) == Join(<<Strftime>> \o Tail(Split(s)))

\* lines 100-105: split, replace line[0] if it parses, join
Rewrite(s) ==
  LET toks == Split(s) IN
    Join(IF FloatParses(toks[1]) THEN <<Strftime>> \o Tail(toks) ELSE toks)

\* line.decode('utf-8') of a bytes object: "0xff" is a byte that is no UTF-8
\* (UnicodeDecodeError); the other bytes here are ASCII and give the text of
\* the same characters
Decodable(b) == b.type = "bytes" /\ \A i \in 1..Len(b.data) : b.data[i] # "0xff"

Decode(b) == b.data

\* (>= for >)
RotationDueAtLimit(pos, max) == pos >= max

\* if f.tell() > max_file_size
RotationDue(pos, max) == pos > max

\* f = open(logpath, 'wt'): creates the file, or truncates the one of that name
WLOpen ==
  /\ pc = "write_logs"
  /\ opens < MaxOpens
  /\ opens' = opens + 1
  /\ dir' = Put(dir, Txt(now), [gen |-> opens + 1, len |-> 0, size |-> 0,
                                mtime |-> now, whole |-> TRUE])
  /\ f' = [path |-> Txt(now), pos |-> 0, flushed |-> 0, synced |-> 0, open |-> TRUE]
  /\ tail' = "none"
  /\ line' = <<>>
  /\ pc' = "w_popen"
  /\ hist' = [hist EXCEPT !.prevpos = 0, !.deleted = <<>>]
  /\ UNCHANGED <<now, max_file_size, max_total_storage, cp, alive, logfiles, tarball_path,
                 original_mtime, total_size, crashed>>

\* open() is outside the try block: its exception leaves write_logs and main
WLOpenRaises ==
  /\ pc = "write_logs"
  /\ pc' = "crashed"
  /\ crashed' = "write_logs"
  /\ UNCHANGED <<dir, now, max_file_size, max_total_storage, cp, alive, logfiles, tarball_path,
                 original_mtime, total_size, f, tail, line, opens, hist>>

\* tail = Popen(['/usr/bin/tail', '/var/log/messages', '-n1', '-F'], ...)
WLPopen ==
  /\ pc = "w_popen"
  /\ tail' = "running"
  /\ alive' = alive + 1
  /\ pc' = "w_read"
  /\ UNCHANGED <<dir, now, max_file_size, max_total_storage, cp, logfiles, tarball_path,
                 original_mtime, total_size, f, line, opens, crashed, hist>>

\* (write_logs returns into the middle of the loop body)
ReturnToRotate(why) ==
  /\ pc' = "rotate_files"
  /\ f' = NoFile
  /\ tail' = "none"
  /\ line' = <<>>
  /\ hist' = [hist EXCEPT !.ret = [why |-> why, pos |-> f.pos, prev |-> hist.prevpos],
                          !.prevpos = 0, !.wrote = <<>>]

\* write_logs returns to the loop of main: its locals f, tail and line go out of
\* scope (the tail subprocess itself is never terminated by the program)
Return(why) ==
  /\ pc' = "compress_files"
  /\ f' = NoFile
  /\ tail' = "none"
  /\ line' = <<>>
  /\ hist' = [hist EXCEPT !.ret = [why |-> why, pos |-> f.pos, prev |-> hist.prevpos],
                          !.prevpos = 0, !.wrote = <<>>]

\* one turn of `for line in iter(tail.stdout.readline, '')` up to the break test
AfterReadline(got) ==
  /\ IF got = Sentinel \/ Truthy(Returncode(tail))
     THEN Return("eof")
     ELSE /\ line' = got
          /\ pc' = "w_write"
          /\ UNCHANGED <<f, tail, hist>>
  /\ UNCHANGED <<dir, now, max_file_size, max_total_storage, cp, alive, logfiles, tarball_path,
                 original_mtime, total_size, opens, crashed>>

\* readline() returns the next line tail printed
WLReadLine ==
  /\ pc = "w_read"
  /\ tail = "running"
  /\ \E s \in Lines : AfterReadline(Bytes(s))

\* readline() at end of stream returns b''
WLReadEOF ==
  /\ pc = "w_read"
  /\ tail = "exited"
  /\ AfterReadline(Bytes(<<>>))

\* f.write(line): n more characters in the file object; pos is f.tell()
FWrite(file, n) == [file EXCEPT !.pos = @ + n]

\* f.flush(): what was written is handed to the operating system
Flush(file) == [file EXCEPT !.flushed = file.pos]

\* (no sync)
SyncSkipped(file) == file

\* os.sync(): what the operating system holds is on the storage device
Sync(file) == [file EXCEPT !.synced = file.flushed]

\* lines 100-108: decode, rewrite, f.write, f.flush, os.sync
WLWrite ==
  /\ pc = "w_write"
  /\ Decodable(line)
  /\ LET out == Rewrite(Decode(line)) IN
       /\ dir' = [dir EXCEPT ![f.path].len = @ + Len(out),
                             ![f.path].size = @ + Len(out),
                             ![f.path].mtime = IF out = <<>> THEN @ ELSE now]
       /\ f' = Sync(Flush(FWrite(f, Len(out))))
       /\ hist' = [hist EXCEPT !.prevpos = f.pos, !.wrote = out]
  /\ pc' = "w_check"
  /\ UNCHANGED <<now, max_file_size, max_total_storage, cp, alive, logfiles, tarball_path,
                 original_mtime, total_size, tail, line, opens, crashed>>

\* lines 109-112: the size test; on rotation close, sleep a second, return
WLCheck ==
  /\ pc = "w_check"
  /\ IF RotationDue(f.pos, max_file_size)
     THEN /\ now < MaxClock
          /\ now' = now + 1
          /\ Return("rotation")
     ELSE /\ pc' = "w_read"
          /\ hist' = [hist EXCEPT !.wrote = <<>>]
          /\ UNCHANGED <<f, now, tail, line>>
  /\ UNCHANGED <<dir, max_file_size, max_total_storage, cp, alive, logfiles, tarball_path,
                 original_mtime, total_size, opens, crashed>>

\* (no handler: the exception leaves write_logs)
WLExceptPropagates ==
  /\ pc \in {"w_popen", "w_read", "w_write", "w_check"}
  /\ pc' = "crashed"
  /\ crashed' = "write_logs"
  /\ UNCHANGED <<dir, now, max_file_size, max_total_storage, cp, alive, logfiles, tarball_path,
                 original_mtime, total_size, f, tail, line, opens, hist>>

\* lines 113-114: an exception inside the try block is logged and write_logs
\* returns; f is not closed and tail is not terminated
WLExcept ==
  /\ pc \in {"w_popen", "w_read", "w_write", "w_check"}
  /\ Return("exception")
  /\ UNCHANGED <<dir, now, max_file_size, max_total_storage, cp, alive, logfiles, tarball_path,
                 original_mtime, total_size, opens, crashed>>

\* ------------------------------------------------------------- main, lines 132-133
MaxItems == 2        \* items in sdk/appdata

RECURSIVE Float(_)
Float(tok) ==
  LET s == Strip(tok) IN
    IF Len(s) <= 1 THEN 7 ELSE 10 * Float(SubSeq(s, 1, Len(s) - 1)) + 7

Returned(v) == [raised |-> FALSE, value |-> v]

Raised == [raised |-> TRUE, value |-> 0]

\* lines 47-52: the for loop over appdata; falling out of it reaches line 53
RECURSIVE ScanItems(_, _, _)
ScanItems(items, key, default) ==
  IF items = <<>> THEN Returned(default)
  ELSE LET item == Head(items) IN
         IF ~item.dict THEN Raised
         ELSE IF item.name = key /\ ValueTruthy(item.value)
              THEN IF FloatParses(item.value) THEN Returned(Float(item.value)) ELSE Raised
              ELSE ScanItems(Tail(items), key, default)

\* lines 45-53: the body of the try block
ConfigBody(store, key, default) ==
  IF ~store.reachable THEN Raised ELSE ScanItems(store.appdata, key, default)

\* (no handler: the exception leaves the function)
Uncaught(r, default) == r

\* lines 54-56: except Exception: log, return default
Caught(r, default) == IF r.raised THEN Returned(default) ELSE r

get_config_value(store, key, default) == Caught(ConfigBody(store, key, default), default)

RECURSIVE Seqs(_, _)
Seqs(S, n) ==
  IF n = 0 THEN {<<>>}
  ELSE Seqs(S, n - 1) \cup {<<x>> \o s : x \in S, s \in {t \in Seqs(S, n - 1) : Len(t) = n - 1}}

Stores == {NoStore} \cup [reachable : {TRUE}, appdata : Seqs(Items, MaxItems)]

\* main() before line 132, with any config store
InitConfig ==
  /\ cp \in Stores
  /\ pc = "main"
  /\ max_file_size = 0
  /\ max_total_storage = 0
  /\ dir = <<>>
  /\ now = 2
  /\ logfiles = <<>>
  /\ tarball_path = Unbound
  /\ original_mtime = 0
  /\ total_size = 0
  /\ f = NoFile
  /\ tail = "none"
  /\ line = <<>>
  /\ opens = 0
  /\ crashed = ""
  /\ alive = 0
  /\ hist = HistInit

\* max_file_size = get_config_value('logfile_max_file_size_MB', DEFAULT_MAX_FILE_SIZE_MB) * MB
MainMaxFileSize ==
  /\ pc = "main"
  /\ LET r == get_config_value(cp, "logfile_max_file_size_MB", DEFAULT_MAX_FILE_SIZE_MB) IN
       IF r.raised
       THEN pc' = "crashed" /\ crashed' = "get_config_value" /\ UNCHANGED max_file_size
       ELSE pc' = "main_133" /\ max_file_size' = r.value * MB /\ UNCHANGED crashed
  /\ UNCHANGED <<dir, now, max_total_storage, cp, alive, logfiles, tarball_path,
                 original_mtime, total_size, f, tail, line, opens, hist>>

\* max_total_storage = get_config_value('logfile_max_total_storage_MB', DEFAULT_MAX_TOTAL_STORAGE_MB) * MB
MainMaxTotalStorage ==
  /\ pc = "main_133"
  /\ LET r == get_config_value(cp, "logfile_max_total_storage_MB", DEFAULT_MAX_TOTAL_STORAGE_MB) IN
       IF r.raised
       THEN pc' = "crashed" /\ crashed' = "get_config_value" /\ UNCHANGED max_total_storage
       ELSE pc' = "main_136" /\ max_total_storage' = r.value * MB /\ UNCHANGED crashed
  /\ UNCHANGED <<dir, now, max_file_size, cp, alive, logfiles, tarball_path,
                 original_mtime, total_size, f, tail, line, opens, hist>>

NextConfig ==
  \/ MainMaxFileSize
  \/ MainMaxTotalStorage

SpecConfig == InitConfig /\ [][NextConfig]_vars

\* ------------------------------------------------------------- write_logs, lines 100-106
MaxLineLen == 3      \* characters of a line

Chars == {"7", "x", " ", "\n", "0xff"}

\* write_logs in its read loop, readline() has just returned any line
InitRewrite ==
  /\ line \in {Bytes(s) : s \in Seqs(Chars, MaxLineLen)}
  /\ pc = "w_write"
  /\ dir = (Txt(2) :> [gen |-> 1, len |-> 0, size |-> 0, mtime |-> 2, whole |-> TRUE])
  /\ f = [path |-> Txt(2), pos |-> 0, flushed |-> 0, synced |-> 0, open |-> TRUE]
  /\ tail = "running"
  /\ alive = 1
  /\ opens = 1
  /\ now = 2
  /\ max_file_size = 1
  /\ max_total_storage = 0
  /\ cp = NoStore
  /\ logfiles = <<>>
  /\ tarball_path = Unbound
  /\ original_mtime = 0
  /\ total_size = 0
  /\ crashed = ""
  /\ hist = HistInit

NextRewrite ==
  \/ WLWrite
  \/ WLExcept

SpecRewrite == InitRewrite /\ [][NextRewrite]_vars

\* ------------------------------------------------------------- environment
\* Time passes.  The clock is read where write_logs names its file and where it
\* stamps it (open, f.write): a tick anywhere else is a tick just before the
\* next of these.  (tarfile.open stamps the archive too, but that stamp is
\* overwritten by os.utime or removed with the archive in the same iteration.)
Tick ==
  /\ pc \in {"write_logs", "w_write"}
  /\ now < MaxClock
  /\ now' = now + 1
  /\ UNCHANGED <<dir, pc, max_file_size, max_total_storage, cp, alive, logfiles, tarball_path,
                 original_mtime, total_size, f, tail, line, opens, crashed, hist>>

\* The tail subprocess of the current capture dies.  write_logs notices nothing
\* of it except through readline().
TailExit ==
  /\ pc = "w_read"
  /\ tail = "running"
  /\ tail' = "exited"
  /\ alive' = alive - 1
  /\ UNCHANGED <<dir, now, pc, max_file_size, max_total_storage, cp, logfiles, tarball_path,
                 original_mtime, total_size, f, line, opens, crashed, hist>>

\* A tail subprocess that an earlier write_logs call left running dies (it is
\* killed, or it writes to its closed pipe).  Nothing in the program observes
\* it, so its death at any point between two captures is its death just before
\* the next one starts.
OrphanExit ==
  /\ pc = "write_logs"
  /\ alive > 0
  /\ alive' = alive - 1
  /\ UNCHANGED <<dir, now, pc, max_file_size, max_total_storage, cp, logfiles, tarball_path,
                 original_mtime, total_size, f, tail, line, opens, crashed, hist>>

\* ------------------------------------------------------------- main
\* while True: compress_files(); rotate_files(max_total_storage); write_logs(...)
Next ==
  \/ CompressList
  \/ CompressGetMtime
  \/ CompressTar
  \/ CompressUtime
  \/ CompressRemove
  \/ CompressExcept
  \/ RotateList
  \/ RotatePop
  \/ RotateReturn
  \/ WLOpen
  \/ WLOpenRaises
  \/ WLPopen
  \/ WLReadLine
  \/ WLReadEOF
  \/ WLWrite
  \/ WLCheck
  \/ WLExcept
  \/ Tick
  \/ TailExit
  \/ OrphanExit

Spec == Init /\ [][Next]_vars

\* The steps the interpreter takes on its own: everything but the arrival of a
\* line, the passing of time, the death of tail and the raising of an exception.
Step ==
  \/ CompressList
  \/ CompressGetMtime
  \/ CompressTar
  \/ CompressUtime
  \/ CompressRemove
  \/ RotateList
  \/ RotatePop
  \/ RotateReturn
  \/ WLOpen
  \/ WLPopen
  \/ WLReadEOF
  \/ WLWrite
  \/ WLCheck

\* main() is one thread that keeps running: a step it can take, it takes
FairSpec == Spec /\ WF_vars(Step)

\* ------------------------------------------------------------- compress_files twice
\* A caller that runs compress_files a second time as soon as the first run has
\* returned, with no capture in between.
CompressAgain ==
  /\ pc = "rotate_files"
  /\ ~hist.first.ran
  /\ pc' = "compress_files"
  /\ hist' = [hist EXCEPT !.first = [ran |-> TRUE, dir |-> dir,
                                     clean |-> hist.failed = {},
                                     done |-> Cardinality(hist.done)]]
  /\ UNCHANGED <<dir, now, max_file_size, max_total_storage, cp, alive, logfiles, tarball_path,
                 original_mtime, total_size, f, tail, line, opens, crashed>>

NextTwice ==
  \/ CompressList
  \/ CompressGetMtime
  \/ CompressTar
  \/ CompressUtime
  \/ CompressRemove
  \/ CompressExcept
  \/ CompressAgain

\* the two limits play no part in compress_files
InitTwice == Init /\ max_file_size = 1 /\ max_total_storage = 0

SpecTwice == InitTwice /\ [][NextTwice]_vars

\* ============================================================= properties

\* ------------------------------------------------------------- rotate_files
\* pc = "write_logs" holds exactly from the return of rotate_files to the open()
\* of write_logs.
RotateDone == pc = "write_logs"

\* C1 (retention bound): when rotate_files has completed, the sizes of the files
\* left in the directory sum to at most max_total_storage, or exactly one file
\* is left and it alone exceeds max_total_storage.  (max_total_storage >= 0.)
C1_RetentionBound ==
  RotateDone =>
    \/ SumSizes(dir, Paths) <= max_total_storage
    \/ Cardinality(Paths) = 1 /\ \A p \in Paths : dir[p].size > max_total_storage

\* rotate_files has completed after deleting some files and keeping others
C1_Witness ==
  /\ RotateDone
  /\ hist.deleted # <<>>
  /\ Paths # {}
  /\ SumSizes(dir, Paths) > 0

\* C2 (deletion order): rotate_files deletes in order of modification time: no
\* file is deleted after a file with a newer mtime, and whenever a file has been
\* deleted every file still in the directory is at least as new as it.
C2_DeletionOrder ==
  \A i \in 1..Len(hist.deleted) :
    /\ \A j \in i..Len(hist.deleted) : hist.deleted[i].mtime <= hist.deleted[j].mtime
    /\ \A p \in Paths : hist.deleted[i].mtime <= dir[p].mtime

\* three files of distinct mtimes A < B < C have been deleted, A then B then C
C2_Witness ==
  /\ Len(hist.deleted) >= 3
  /\ hist.deleted[1].mtime < hist.deleted[2].mtime
  /\ hist.deleted[2].mtime < hist.deleted[3].mtime

\* ------------------------------------------------------------- write_logs
\* C3 (rotation trigger): write_logs returns for rotation only right after the
\* first write that takes the file over max_file_size: at that return the size
\* is over the limit and was not before the last write; the loop reads another
\* line only while the size is within the limit; and the size is tested only
\* when the whole rewritten line is in the file.
C3_RotationTrigger ==
  /\ hist.ret.why = "rotation" =>
       hist.ret.pos > max_file_size /\ hist.ret.prev <= max_file_size
  /\ pc \in {"w_read", "w_write"} => f.pos <= max_file_size
  /\ pc = "w_check" =>
       /\ f.pos = hist.prevpos + Len(Rewrite(line.data))
       /\ dir[f.path].size = f.pos

\* a capture wrote a line without rotating, then rotated on a later line
C3_Witness ==
  /\ hist.ret.why = "rotation"
  /\ hist.ret.prev > 0

\* ------------------------------------------------------------- compress_files
\* the archives named after log n that are in directory d
ArchivesOf(d, n) == {p \in DOMAIN d : IsTgz(p) /\ p[1] = n}

\* the smallest index i >= 0 for which '<n>.iii.tar.gz' is not in d
FirstFree(d, n) ==
  CHOOSE i \in 0..Cardinality(DOMAIN d) :
    /\ Tgz(n, i) \notin DOMAIN d
    /\ \A j \in 0..(i - 1) : Tgz(n, j) \in DOMAIN d

\* C4 (name collision safety): the path compress_files is about to write the
\* archive to does not exist; it is '<name>.tar.gz' when that is free and
\* otherwise '<name>.NNN.tar.gz' for the smallest free NNN; and every archive
\* that was there when the pass began is still there, unchanged.
C4_NameCollisionSafety ==
  /\ pc = "c_tar" =>
       LET n == Head(logfiles)[1] IN
         /\ tarball_path \notin Paths
         /\ tarball_path = IF Tgz(n, NoIdx) \notin Paths THEN Tgz(n, NoIdx)
                           ELSE Tgz(n, FirstFree(dir, n))
  /\ \A p \in DOMAIN hist.dir0 :
       IsTgz(p) => p \in Paths /\ dir[p] = hist.dir0[p]

\* an archive has been written as '<name>.001.tar.gz' beside two older ones
C4_Witness ==
  /\ pc = "c_utime"
  /\ tarball_path[3] = 1
  /\ tarball_path \in Paths
  /\ Cardinality(ArchivesOf(hist.dir0, tarball_path[1])) = 2

\* C5 (a failure is atomic for its file): once the handler has run for a
\* candidate, the candidate's .txt file is as it was when the pass began and the
\* archives named after it are exactly those that were there before, unchanged:
\* nothing of the failed attempt is left.
C5_FailureAtomic ==
  \A c \in hist.failed :
    /\ c \in Paths
    /\ dir[c] = hist.dir0[c]
    /\ ArchivesOf(dir, c[1]) = ArchivesOf(hist.dir0, c[1])
    /\ \A a \in ArchivesOf(dir, c[1]) : dir[a] = hist.dir0[a]

\* a candidate failed after its archive path had been chosen, the handler has
\* run, and the pass goes on with the next candidate
C5_Witness ==
  /\ pc = "c_getmtime"
  /\ tarball_path # Unbound
  /\ tarball_path \notin Paths
  /\ Txt(tarball_path[1]) \in hist.failed

\* C6 (a failure never aborts the batch), as claimed: no exception leaves
\* compress_files, whichever candidate fails and at whichever step.
C6_BatchNeverAborts == crashed # "compress_files"

\* the text of log p of directory d0 is in directory d as a finished archive
\* made from it and stamped with its mtime
Archived(d, d0, p) ==
  \E a \in ArchivesOf(d, p[1]) \ DOMAIN d0 :
    /\ d[a].whole
    /\ d[a].gen = d0[p].gen
    /\ d[a].len = d0[p].len
    /\ d[a].mtime = d0[p].mtime

\* C7 (source removed only on success), as claimed: at every point of a
\* compress_files pass, each log that was in the directory when the pass began
\* is there as its unchanged .txt file or as a finished archive carrying its
\* mtime.
C7_SourceOrArchive ==
  \A p \in DOMAIN hist.dir0 :
    IsTxt(p) => (p \in Paths /\ dir[p] = hist.dir0[p]) \/ Archived(dir, hist.dir0, p)

\* C8 (timestamp preservation): the archive of every log compressed in this
\* pass carries the mtime the log had when the pass began, so two such archives
\* are ordered by age as their logs were.
C8_TimestampPreserved ==
  \A x \in hist.done :
    /\ x[1] \in Paths => dir[x[1]].mtime = hist.dir0[x[2]].mtime
    /\ \A y \in hist.done :
         (x[1] \in Paths /\ y[1] \in Paths) =>
           (dir[x[1]].mtime <= dir[y[1]].mtime
              <=> hist.dir0[x[2]].mtime <= hist.dir0[y[2]].mtime)

\* two logs of different ages have been compressed, both before the current
\* second, and their archives are in the directory
C8_Witness ==
  \E x, y \in hist.done :
    /\ x[1] \in Paths /\ y[1] \in Paths
    /\ dir[x[1]].mtime < dir[y[1]].mtime
    /\ dir[y[1]].mtime < now

C10_EofEndsCapture == (pc = "w_read" /\ tail = "exited") ~> (pc = "compress_files")

\* C11 (no truncation on a restart in the same second), as claimed: write_logs
\* never opens for writing a name that is already in the directory.
C11_NeverOpensExisting == [][WLOpen => Txt(now) \notin Paths]_vars

\* ------------------------------------------------------------- get_config_value
\* the values stored under key in a reachable store
ValuesOf(store, key) ==
  {store.appdata[i].value : i \in {j \in 1..Len(store.appdata) :
                                     store.appdata[j].dict /\ store.appdata[j].name = key}}

\* the limit main() has computed from what get_config_value returned
LimitOk(limit, store, key, default) ==
  /\ (\A v \in ValuesOf(store, key) : ~FloatParses(v)) => limit = default * MB
  /\ limit # default * MB =>
       \E v \in ValuesOf(store, key) : FloatParses(v) /\ limit = Float(v) * MB

\* C12 (configuration errors are never fatal): no exception leaves
\* get_config_value; when the store is unreachable or empty, or holds under the
\* key no value or only missing, empty or unparseable values, the limit is the
\* default (10 MB, 50 MB); and a limit other than the default is the number
\* stored under the key.
C12_ConfigNeverFatal ==
  /\ crashed # "get_config_value"
  /\ pc \in {"main_133", "main_136"} =>
       LimitOk(max_file_size, cp, "logfile_max_file_size_MB", DEFAULT_MAX_FILE_SIZE_MB)
  /\ pc = "main_136" =>
       LimitOk(max_total_storage, cp, "logfile_max_total_storage_MB",
               DEFAULT_MAX_TOTAL_STORAGE_MB)
  /\ (pc = "main_136" /\ (~cp.reachable \/ cp.appdata = <<>>)) =>
       max_file_size = 10 * MB /\ max_total_storage = 50 * MB

\* both limits are read: the file size is the stored 7 MB, and the storage key
\* holds an unparseable value, so the budget is the default
C12_Witness ==
  /\ pc = "main_136"
  /\ max_file_size = 7 * MB
  /\ max_total_storage = 50 * MB
  /\ <<"x">> \in ValuesOf(cp, "logfile_max_total_storage_MB")

\* ------------------------------------------------------------- main
\* the call of the loop body the thread is in
Phase(p) ==
  CASE p \in {"compress_files", "c_getmtime", "c_tar", "c_utime", "c_remove"} -> "compress_files"
    [] p \in {"rotate_files", "r_loop"} -> "rotate_files"
    [] p \in {"write_logs", "w_popen", "w_read", "w_write", "w_check"} -> "write_logs"
    [] OTHER -> "none"

\* C13 (supervisor ordering): the loop body runs compress_files, then
\* rotate_files, then write_logs, then compress_files again, and nothing ends
\* the loop but an exception that leaves main; while compress_files or
\* rotate_files runs no capture is in progress: write_logs holds no open file
\* and no tail handle, so no file they read, archive or delete is being appended to.
C13_SupervisorOrder ==
  /\ [][Phase(pc') # Phase(pc) =>
          \/ <<Phase(pc), Phase(pc')>> \in {<<"compress_files", "rotate_files">>,
                                            <<"rotate_files", "write_logs">>,
                                            <<"write_logs", "compress_files">>}
          \/ pc' = "crashed"]_vars
  /\ [](Phase(pc) \in {"compress_files", "rotate_files"} => f = NoFile /\ tail = "none")

\* a capture has rotated its file and the loop has come round: compress_files
\* has archived that file and rotate_files is running again
C13_Witness ==
  /\ pc = "r_loop"
  /\ opens = 1
  /\ \E p \in Paths : IsTgz(p) /\ dir[p].gen = 1 /\ dir[p].len > 0

\* ------------------------------------------------------------- write_logs
\* C14 (the tail subprocess is owned by its cycle), as claimed: outside the
\* read loop of write_logs no tail subprocess is running, and never more than
\* one is.
C14_TailTerminated ==
  /\ pc \notin {"w_read", "w_write", "w_check"} => alive = 0
  /\ alive <= 1

\* the index of the first space of s, Len(s) + 1 if it has none
FirstSpace(s) ==
  CHOOSE k \in 1..(Len(s) + 1) :
    /\ k <= Len(s) => s[k] = " "
    /\ \A j \in 1..(k - 1) : s[j] # " "

\* tok reads as a number: digits, with nothing but line ends around them
IsNumber(tok) ==
  \E i, j \in 1..Len(tok) :
    /\ i <= j
    /\ \A k \in 1..Len(tok) : tok[k] = IF k \in i..j THEN "7" ELSE "\n"

\* C15 (line timestamp rewrite): of a line that decodes, what is written is the
\* input from its first space on, unchanged, preceded by the formatted
\* date-time when the first token reads as a number and by the first token
\* itself otherwise (the whole line unchanged); and whether or not the token
\* parses, the line is written and the capture goes on to the size test.
C15_LineRewrite ==
  /\ (pc = "w_write" /\ Decodable(line)) => ENABLED WLWrite
  /\ pc = "w_check" =>
       LET k == FirstSpace(line.data)
           tok == SubSeq(line.data, 1, k - 1)
           rest == SubSeq(line.data, k, Len(line.data))
       IN /\ IsNumber(tok) => hist.wrote = <<"D", " ", "T">> \o rest
          /\ ~IsNumber(tok) => hist.wrote = line.data

\* '7 x' has been written as '<date> <time> x'
C15_Witness ==
  /\ pc = "w_check"
  /\ line.data = <<"7", " ", "x">>
  /\ hist.wrote = <<"D", " ", "T", " ", "x">>

\* C16 (capture I/O errors are recovered), as claimed: no exception raised
\* during a capture cycle, the opening of the new log file included, leaves
\* write_logs.
C16_NeverPropagates == crashed # "write_logs"

\* C16, amended: an exception raised inside the try block of write_logs (by
\* Popen, readline, decode, write, flush, sync or close) ends the cycle and
\* control is back in the loop of main; the only exception that leaves
\* write_logs is that of open(), raised before any file is open and before
\* tail is started.
C16_TryBlockRecovers ==
  /\ hist.ret.why = "exception" => pc = "compress_files" /\ crashed = ""
  /\ crashed = "write_logs" => f = NoFile /\ tail = "none" /\ hist.ret.why # "exception"

\* an exception was raised after a line had been written, and main goes on
C16_Witness ==
  /\ hist.ret.why = "exception"
  /\ hist.ret.pos > 0
  /\ pc = "compress_files"

\* C17 (per-line durability): while a capture is in progress everything it has
\* written is flushed and synced, at the size test and before the next line is
\* read: the written text up to and including the last processed line is on
\* the storage device, and it is the whole text of the file.
C17_LineDurable ==
  pc \in {"w_read", "w_write", "w_check"} =>
    /\ f.synced = f.pos
    /\ f.flushed = f.pos
    /\ dir[f.path].len = f.pos
    /\ pc = "w_check" => f.synced = hist.prevpos + Len(hist.wrote)

\* a second non-empty line has been written and synced and is at the size test
C17_Witness ==
  /\ pc = "w_check"
  /\ hist.prevpos > 0
  /\ f.synced > hist.prevpos

\* C18 (one active log file, rotated files immutable), as claimed: a capture
\* in progress has exactly one file open for appending, and the text of every
\* other log file stays as it is for as long as the file is in the directory.
C18_RotatedNeverRewritten ==
  /\ [](pc \in {"w_popen", "w_read", "w_write", "w_check"} => f.open /\ f.path \in Paths)
  /\ [][\A p \in Paths \cap DOMAIN dir' :
          (IsTxt(p) /\ ~(f.open /\ p = f.path)) =>
            dir'[p].gen = dir[p].gen /\ dir'[p].len = dir[p].len]_vars

\* ------------------------------------------------------------- compress_files
\* C19 (a failure deletes no other file's archive), as claimed: during a pass
\* of compress_files every archive that was there when the pass began and
\* every archive the pass has finished for an earlier candidate is in the
\* directory, whichever candidate fails afterwards.
C19_OtherArchivesSurvive ==
  /\ \A p \in DOMAIN hist.dir0 : IsTgz(p) => p \in Paths
  /\ \A x \in hist.done : x[1] \in Paths

\* ------------------------------------------------------------- rotate_files
\* C20 (rotate_files deletes the minimum): every turn of the loop shortens the
\* list, and the loop either deletes or returns, so it ends; a file is deleted
\* only while the directory is over max_total_storage, so nothing is deleted
\* from a directory within the budget and the last file deleted was needed;
\* the files kept are the newest: in the list they are in newest-first order,
\* none is older than a deleted file; and when rotate_files has returned they
\* are within the budget or none is left.
C20_DeletesTheMinimum ==
  /\ [][RotatePop => /\ Len(logfiles') < Len(logfiles)
                     /\ SumSizes(dir, Paths) > max_total_storage
                     /\ \A p \in Paths : dir[logfiles[Len(logfiles)]].mtime <= dir[p].mtime]_vars
  /\ [](pc = "r_loop" =>
          /\ ENABLED (RotatePop \/ RotateReturn)
          /\ {logfiles[i] : i \in 1..Len(logfiles)} = Paths
          /\ \A i, j \in 1..Len(logfiles) :
               i < j => dir[logfiles[i]].mtime >= dir[logfiles[j]].mtime
          /\ \A i \in 1..Len(hist.deleted) :
               \A p \in Paths : hist.deleted[i].mtime <= dir[p].mtime)
  /\ [](RotateDone => (SumSizes(dir, Paths) <= max_total_storage \/ Paths = {}))

\* rotate_files has deleted the two oldest files and kept the newest, which is
\* newer than both
C20_Witness ==
  /\ RotateDone
  /\ Len(hist.deleted) = 2
  /\ Cardinality(Paths) = 1
  /\ \A p \in Paths : \A i \in 1..2 : hist.deleted[i].mtime < dir[p].mtime

====
